---- MODULE Spec2Model ----
(***************************************************************************)
(* Model of crypto/rabbit (rabbit.go): the Rabbit stream cipher state      *)
(* machine -- key schedule, IV setup, next-state function, the streaming   *)
(* ProcessStream with its leftover-keystream field r, and the two resets.  *)
(*                                                                         *)
(* A uint32 is the pair <<h, l>> of its high and low 16-bit halves, since  *)
(* TLC's integers are narrower than 2^32.  All word arithmetic is done on  *)
(* the halves and wraps modulo 2^32 exactly as Go's uint32 does.           *)
(* A byte is a number in 0..255; a []byte is a sequence (the Go index i is *)
(* the sequence index i+1).                                                *)
(***************************************************************************)
EXTENDS Integers, Sequences, FiniteSets, TLC

(***************************************************************************)
(* uint32 arithmetic on 16-bit halves.                                     *)
(***************************************************************************)
Hi(w) == w[1]
Lo(w) == w[2]

\* 2^n for the shift amounts the code uses (0..16)
Pow2Table ==
  <<1, 2, 4, 8, 16, 32, 64, 128, 256, 512, 1024, 2048, 4096, 8192, 16384,
    32768, 65536>>

Pow2(n) == Pow2Table[n + 1]

\* bitwise ^, & and | on 4-bit numbers, bit by bit
RECURSIVE XorBits(_, _)
XorBits(a, b) ==
  IF a = 0 THEN b
  ELSE IF b = 0 THEN a
  ELSE ((a + b) % 2) + 2 * XorBits(a \div 2, b \div 2)

RECURSIVE AndBits(_, _)
AndBits(a, b) ==
  IF a = 0 \/ b = 0 THEN 0
  ELSE ((a % 2) * (b % 2)) + 2 * AndBits(a \div 2, b \div 2)

RECURSIVE OrBits(_, _)
OrBits(a, b) ==
  IF a = 0 THEN b
  ELSE IF b = 0 THEN a
  ELSE (IF a % 2 = 1 \/ b % 2 = 1 THEN 1 ELSE 0) + 2 * OrBits(a \div 2, b \div 2)

XorTable == [a \in 0..15 |-> [b \in 0..15 |-> XorBits(a, b)]]
AndTable == [a \in 0..15 |-> [b \in 0..15 |-> AndBits(a, b)]]
OrTable  == [a \in 0..15 |-> [b \in 0..15 |-> OrBits(a, b)]]

\* a 16-bit operation from its 4-bit table t, digit by digit
Nibbles(t, a, b) ==
  t[a % 16][b % 16]
    + 16 * t[(a \div 16) % 16][(b \div 16) % 16]
    + 256 * t[(a \div 256) % 16][(b \div 256) % 16]
    + 4096 * t[a \div 4096][b \div 4096]

\* bitwise ^, & and | on numbers below 2^16
XorN(a, b) == Nibbles(XorTable, a, b)
AndN(a, b) == Nibbles(AndTable, a, b)
OrN(a, b)  == Nibbles(OrTable, a, b)

Xor32(u, v) == <<XorN(Hi(u), Hi(v)), XorN(Lo(u), Lo(v))>>
And32(u, v) == <<AndN(Hi(u), Hi(v)), AndN(Lo(u), Lo(v))>>
Or32(u, v)  == <<OrN(Hi(u), Hi(v)), OrN(Lo(u), Lo(v))>>

\* u + v modulo 2^32
Add32(u, v) ==
  LET l == Lo(u) + Lo(v)
      h == Hi(u) + Hi(v) + (l \div 65536)
  IN  <<h % 65536, l % 65536>>

\* u < v on uint32
Lt32(u, v) == Hi(u) < Hi(v) \/ (Hi(u) = Hi(v) /\ Lo(u) < Lo(v))

\* v << n and v >> n on uint32, 0 <= n < 32
Shl32(v, n) ==
  IF n = 0 THEN v
  ELSE IF n < 16
       THEN <<(Hi(v) % Pow2(16 - n)) * Pow2(n) + (Lo(v) \div Pow2(16 - n)),
              (Lo(v) % Pow2(16 - n)) * Pow2(n)>>
       ELSE <<(Lo(v) % Pow2(32 - n)) * Pow2(n - 16), 0>>

Shr32(v, n) ==
  IF n = 0 THEN v
  ELSE IF n < 16
       THEN <<Hi(v) \div Pow2(n),
              (Lo(v) \div Pow2(n)) + (Hi(v) % Pow2(n)) * Pow2(16 - n)>>
       ELSE <<0, Hi(v) \div Pow2(n - 16)>>

\* the full 32-bit product of two 16-bit numbers, from 8-bit limbs
Mul16(a, b) ==
  LET al == a % 256
      ah == a \div 256
      bl == b % 256
      bh == b \div 256
      p0 == al * bl
      p1 == al * bh + ah * bl
      p2 == ah * bh
      l  == p0 + (p1 % 256) * 256
      h  == p2 + (p1 \div 256) + (l \div 65536)
  IN  <<h % 65536, l % 65536>>

\* u * v modulo 2^32
Mul32(u, v) ==
  LET ll == Mul16(Lo(u), Lo(v))
      hl == Mul16(Hi(u), Lo(v))
      lh == Mul16(Lo(u), Hi(v))
  IN  <<(Hi(ll) + Lo(hl) + Lo(lh)) % 65536, Lo(ll)>>

\* byte(v): the low 8 bits
ToByte(v) == Lo(v) % 256

\* uint32(b0) | uint32(b1)<<8 | uint32(b2)<<16 | uint32(b3)<<24
LeWord(b0, b1, b2, b3) ==
  Or32(Or32(<<0, b0>>, Shl32(<<0, b1>>, 8)),
       Or32(Shl32(<<0, b2>>, 16), Shl32(<<0, b3>>, 24)))

Zero32 == <<0, 0>>

(***************************************************************************)
(* The round function.                                                     *)
(***************************************************************************)
rotl(v, n) == Or32(Shl32(v, n), Shr32(v, 32 - n))

\* the one element of a singleton set
Only(S) == CHOOSE v \in S : TRUE

\* lines 64-69: p is the pair of locals <<a, b>>, h the sum under the outer
\* shift; each is bound to its value once, where the code assigns it
rabbitCalcG(x) ==
  Only({ Only({ Xor32(Add32(Shr32(h, 15), Mul32(p[2], p[2])), Mul32(v, v))
                : h \in {Add32(Shr32(Mul32(p[1], p[1]), 17), Mul32(p[1], p[2]))} })
         : v \in {x}, p \in {<<And32(x, <<0, 65535>>), Shr32(x, 16)>>} })

booltoi(b) == IF b THEN <<0, 1>> ELSE <<0, 0>>

\* the three additive counter constants 0x4D34D34D, 0xD34D34D3, 0x34D34D34
A0 == <<19764, 54093>>
A1 == <<54093, 13523>>
A2 == <<13523, 19764>>

\* an array of 8 words, indexed 0..7 as in the source
Words8(w0, w1, w2, w3, w4, w5, w6, w7) ==
  0 :> w0 @@ 1 :> w1 @@ 2 :> w2 @@ 3 :> w3 @@
  4 :> w4 @@ 5 :> w5 @@ 6 :> w6 @@ 7 :> w7

\* rabbitNextCounters writing each word to c.c as it goes, so that every
\* comparison meets the word just written
rabbitNextCountersInPlace(s) ==
  LET c0 == Add32(Add32(s.c[0], A0), booltoi(s.carry))
      c1 == Add32(Add32(s.c[1], A1), booltoi(Lt32(c0, c0)))
      c2 == Add32(Add32(s.c[2], A2), booltoi(Lt32(c1, c1)))
      c3 == Add32(Add32(s.c[3], A0), booltoi(Lt32(c2, c2)))
      c4 == Add32(Add32(s.c[4], A1), booltoi(Lt32(c3, c3)))
      c5 == Add32(Add32(s.c[5], A2), booltoi(Lt32(c4, c4)))
      c6 == Add32(Add32(s.c[6], A0), booltoi(Lt32(c5, c5)))
      c7 == Add32(Add32(s.c[7], A1), booltoi(Lt32(c6, c6)))
  IN  <<Words8(c0, c1, c2, c3, c4, c5, c6, c7), Lt32(c7, c7)>>

\* rabbitNextCounters with two constants alternating by the parity of i
rabbitNextCountersParity(s) ==
  LET c0 == Add32(Add32(s.c[0], A0), booltoi(s.carry))
      c1 == Add32(Add32(s.c[1], A1), booltoi(Lt32(c0, s.c[0])))
      c2 == Add32(Add32(s.c[2], A0), booltoi(Lt32(c1, s.c[1])))
      c3 == Add32(Add32(s.c[3], A1), booltoi(Lt32(c2, s.c[2])))
      c4 == Add32(Add32(s.c[4], A0), booltoi(Lt32(c3, s.c[3])))
      c5 == Add32(Add32(s.c[5], A1), booltoi(Lt32(c4, s.c[4])))
      c6 == Add32(Add32(s.c[6], A0), booltoi(Lt32(c5, s.c[5])))
      c7 == Add32(Add32(s.c[7], A1), booltoi(Lt32(c6, s.c[6])))
  IN  <<Words8(c0, c1, c2, c3, c4, c5, c6, c7), Lt32(c7, s.c[7])>>

\* lines 79-92 of rabbitNext, on cipher record s: the new counter words
\* c0..c7 and the new carry.  Every comparison is with the old s.c, since
\* the words are held back until lines 112-113.
rabbitNextCounters(s) ==
  LET c0 == Add32(Add32(s.c[0], A0), booltoi(s.carry))
      c1 == Add32(Add32(s.c[1], A1), booltoi(Lt32(c0, s.c[0])))
      c2 == Add32(Add32(s.c[2], A2), booltoi(Lt32(c1, s.c[1])))
      c3 == Add32(Add32(s.c[3], A0), booltoi(Lt32(c2, s.c[2])))
      c4 == Add32(Add32(s.c[4], A1), booltoi(Lt32(c3, s.c[3])))
      c5 == Add32(Add32(s.c[5], A2), booltoi(Lt32(c4, s.c[4])))
      c6 == Add32(Add32(s.c[6], A0), booltoi(Lt32(c5, s.c[5])))
      c7 == Add32(Add32(s.c[7], A1), booltoi(Lt32(c6, s.c[6])))
  IN  <<Words8(c0, c1, c2, c3, c4, c5, c6, c7), Lt32(c7, s.c[7])>>

\* lines 94-101: g0..g7, all from the old x and the new counter words cn
rabbitNextG(s, cn) ==
  Words8(rabbitCalcG(Add32(s.x[0], cn[0])), rabbitCalcG(Add32(s.x[1], cn[1])),
         rabbitCalcG(Add32(s.x[2], cn[2])), rabbitCalcG(Add32(s.x[3], cn[3])),
         rabbitCalcG(Add32(s.x[4], cn[4])), rabbitCalcG(Add32(s.x[5], cn[5])),
         rabbitCalcG(Add32(s.x[6], cn[6])), rabbitCalcG(Add32(s.x[7], cn[7])))

\* lines 103-113 (and 92): x from g, c from the new counter words cn, carry
rabbitNextStore(s, cn, cy, g) ==
  [s EXCEPT
    !.c = cn,
    !.carry = cy,
    !.x = Words8(Add32(Add32(g[0], rotl(g[7], 16)), rotl(g[6], 16)),
                 Add32(Add32(g[1], rotl(g[0], 8)), g[7]),
                 Add32(Add32(g[2], rotl(g[1], 16)), rotl(g[0], 16)),
                 Add32(Add32(g[3], rotl(g[2], 8)), g[1]),
                 Add32(Add32(g[4], rotl(g[3], 16)), rotl(g[2], 16)),
                 Add32(Add32(g[5], rotl(g[4], 8)), g[3]),
                 Add32(Add32(g[6], rotl(g[5], 16)), rotl(g[4], 16)),
                 Add32(Add32(g[7], rotl(g[6], 8)), g[5]))]

\* rabbitNext given n, the pair rabbitNextCounters(s)
rabbitNextFrom(s, n) == rabbitNextStore(s, n[1], n[2], rabbitNextG(s, n[1]))

\* only x, c and carry change
rabbitNext(s) == rabbitNextFrom(s, rabbitNextCounters(s))

\* four calls of rabbitNext (the warm-up loops of NewCipher and SetupIV)
Warmup(s) == rabbitNext(rabbitNext(rabbitNext(rabbitNext(s))))

\* the 16 keystream bytes extracted from x, little-endian word by word
\* (o0..o3 of the fast path, z of the partial path, d0..d3 of rabbitGen)
OutWord(s, k) ==
  CASE k = 0 -> Xor32(s.x[0], Xor32(Shr32(s.x[5], 16), Shl32(s.x[3], 16)))
    [] k = 1 -> Xor32(s.x[2], Xor32(Shr32(s.x[7], 16), Shl32(s.x[5], 16)))
    [] k = 2 -> Xor32(s.x[4], Xor32(Shr32(s.x[1], 16), Shl32(s.x[7], 16)))
    [] k = 3 -> Xor32(s.x[6], Xor32(Shr32(s.x[3], 16), Shl32(s.x[1], 16)))

(***************************************************************************)
(* The zero value of Cipher and the key schedule.                          *)
(***************************************************************************)
ZeroWords == Words8(Zero32, Zero32, Zero32, Zero32, Zero32, Zero32, Zero32, Zero32)

ZeroCipher ==
  [x |-> ZeroWords, c |-> ZeroWords, cx |-> ZeroWords, cc |-> ZeroWords,
   carry |-> FALSE, ccarry |-> FALSE, r |-> <<>>]

\* lines 136-162: x, c and carry loaded from the key
KeySetup(key) ==
  LET k0 == LeWord(key[1], key[2], key[3], key[4])
      k1 == LeWord(key[5], key[6], key[7], key[8])
      k2 == LeWord(key[9], key[10], key[11], key[12])
      k3 == LeWord(key[13], key[14], key[15], key[16])
      hi == <<65535, 0>>
      lo == <<0, 65535>>
  IN  [ZeroCipher EXCEPT
        !.x = Words8(k0, Or32(Shl32(k3, 16), Shr32(k2, 16)),
                     k1, Or32(Shl32(k0, 16), Shr32(k3, 16)),
                     k2, Or32(Shl32(k1, 16), Shr32(k0, 16)),
                     k3, Or32(Shl32(k2, 16), Shr32(k1, 16))),
        !.c = Words8(rotl(k2, 16), Or32(And32(k0, hi), And32(k1, lo)),
                     rotl(k3, 16), Or32(And32(k1, hi), And32(k2, lo)),
                     rotl(k0, 16), Or32(And32(k2, hi), And32(k3, lo)),
                     rotl(k1, 16), Or32(And32(k3, hi), And32(k0, lo))),
        !.carry = FALSE]

\* lines 168-170: c.c[i] ^= c.x[(i+4)&0x7]
MixCounters(s) ==
  [s EXCEPT !.c = Words8(Xor32(s.c[0], s.x[4]), Xor32(s.c[1], s.x[5]),
                         Xor32(s.c[2], s.x[6]), Xor32(s.c[3], s.x[7]),
                         Xor32(s.c[4], s.x[0]), Xor32(s.c[5], s.x[1]),
                         Xor32(s.c[6], s.x[2]), Xor32(s.c[7], s.x[3]))]

\* lines 172-176: the master snapshot
Snapshot(s) == [s EXCEPT !.cx = s.x, !.cc = s.c, !.ccarry = s.carry]

\* the cipher NewCipher builds from a 16-byte key (lines 136-178)
NewCipherOf(key) == Snapshot(MixCounters(Warmup(KeySetup(key))))

(***************************************************************************)
(* SetupIV, ProcessStream, ResetCipher and Reset as functions of the       *)
(* cipher record.                                                          *)
(***************************************************************************)
Nil == <<>>

\* lines 132-135: the error NewCipher returns, Nil for none
NewCipherErr(key) == IF Len(key) # 16 THEN <<1, Len(key)>> ELSE Nil

\* SetupIVErr building its error with NewCipher's kind, 1
SetupIVErrKeyKind(iv) == IF Len(iv) # 8 THEN <<1, Len(iv)>> ELSE Nil

\* lines 184-187: the error SetupIV returns, Nil for none
SetupIVErr(iv) == IF Len(iv) # 8 THEN <<2, Len(iv)>> ELSE Nil

\* SetupIVOf deriving from the live c, x and carry in place of cc, cx, ccarry
SetupIVFromLive(s, iv) ==
  LET d0 == LeWord(iv[1], iv[2], iv[3], iv[4])
      d2 == LeWord(iv[5], iv[6], iv[7], iv[8])
      d1 == Or32(Shr32(d0, 16), And32(d2, <<65535, 0>>))
      d3 == Or32(Shl32(d2, 16), And32(d0, <<0, 65535>>))
  IN  Warmup([s EXCEPT
               !.c = Words8(Xor32(s.c[0], d0), Xor32(s.c[1], d1),
                            Xor32(s.c[2], d2), Xor32(s.c[3], d3),
                            Xor32(s.c[4], d0), Xor32(s.c[5], d1),
                            Xor32(s.c[6], d2), Xor32(s.c[7], d3))])

\* lines 189-211: SetupIV past its size check
SetupIVOf(s, iv) ==
  LET d0 == LeWord(iv[1], iv[2], iv[3], iv[4])
      d2 == LeWord(iv[5], iv[6], iv[7], iv[8])
      d1 == Or32(Shr32(d0, 16), And32(d2, <<65535, 0>>))
      d3 == Or32(Shl32(d2, 16), And32(d0, <<0, 65535>>))
      s1 == [s EXCEPT
              !.c = Words8(Xor32(s.cc[0], d0), Xor32(s.cc[1], d1),
                           Xor32(s.cc[2], d2), Xor32(s.cc[3], d3),
                           Xor32(s.cc[4], d0), Xor32(s.cc[5], d1),
                           Xor32(s.cc[6], d2), Xor32(s.cc[7], d3)),
              !.x = s.cx,
              !.carry = s.ccarry]
  IN  Warmup(s1)

\* ResetCipherOf with its copies the wrong way round (c.cc[i] = c.c[i], ...)
ResetCipherReversed(s) ==
  [s EXCEPT !.cc = s.c,
            !.cx = s.x,
            !.ccarry = s.carry]

\* lines 273-281
ResetCipherOf(s) ==
  [s EXCEPT !.c = s.cc,
            !.x = s.cx,
            !.carry = s.ccarry]

\* ResetOf that drops r as well
ResetDroppingR(s) ==
  [s EXCEPT !.x = ZeroWords, !.c = ZeroWords, !.cx = ZeroWords, !.cc = ZeroWords,
            !.carry = FALSE, !.r = <<>>]

\* lines 285-290; line 289 assigns carry twice and never ccarry
ResetOf(s) ==
  [s EXCEPT !.x = ZeroWords, !.c = ZeroWords, !.cx = ZeroWords, !.cc = ZeroWords,
            !.carry = FALSE]

\* XorByte as buf[i] += k
AddByte(b, k) == (b + k) % 256

\* buf[i] ^= k
XorByte(b, k) == XorN(b, k)

Min(a, b) == IF a < b THEN a ELSE b

\* ConsumePending with the loop condition i < m alone: buf[i] is indexed past
\* the end of a buffer shorter than r
ConsumePendingUnchecked(s, buf) ==
  LET l == Len(buf)
      m == Len(s.r)
  IN  IF m > l
      THEN [s |-> s, buf |-> buf, i |-> l, l |-> l, rounds |-> 0, panic |-> TRUE]
      ELSE [s |-> [s EXCEPT !.r = <<>>],
            buf |-> [k \in 1..m |-> XorByte(buf[k], s.r[k])] \o SubSeq(buf, m + 1, l),
            i |-> m, l |-> l, rounds |-> 0, panic |-> FALSE]

\* lines 220-225: the leftover bytes of r are XORed into the front of buf and
\* r is dropped; st is the running state of one ProcessStream call
ConsumePending(s, buf) ==
  LET l == Len(buf)
      m == Len(s.r)
      n == Min(m, l)
  IN  IF m > 0
      THEN [s |-> [s EXCEPT !.r = <<>>],
            buf |-> [k \in 1..n |-> XorByte(buf[k], s.r[k])] \o SubSeq(buf, n + 1, l),
            i |-> n, l |-> l, rounds |-> 0, panic |-> FALSE]
      ELSE [s |-> s, buf |-> buf, i |-> 0, l |-> l, rounds |-> 0, panic |-> FALSE]

\* lines 118-126 of rabbitGen: the 16 bytes of the block of cipher s, word
\* by word, each word low byte first
GenBytes(s) ==
  <<>> \o [k \in 1..16 |->
            ToByte(Shr32(OutWord(s, (k - 1) \div 4), ((k - 1) % 4) * 8))]

\* FullBlock taking its block the way rabbitGen does, with a round of its
\* own on top of the round of line 227
FullBlockExtraRound(st) ==
  LET u == rabbitNext(st.s)
      g == GenBytes(u)
  IN  [st EXCEPT
        !.s = u,
        !.buf = SubSeq(st.buf, 1, st.i)
                  \o [k \in 1..16 |-> XorByte(st.buf[st.i + k], g[k])]
                  \o SubSeq(st.buf, st.i + 17, Len(st.buf)),
        !.i = st.i + 16]

\* lines 230-250: a whole block XORed into buf[i .. i+15]
FullBlock(st) ==
  LET o == <<OutWord(st.s, 0), OutWord(st.s, 1), OutWord(st.s, 2), OutWord(st.s, 3)>>
  IN  [st EXCEPT
        !.buf = SubSeq(st.buf, 1, st.i)
                  \o [k \in 1..16 |->
                        XorByte(st.buf[st.i + k],
                                ToByte(Shr32(o[((k - 1) \div 4) + 1], ((k - 1) % 4) * 8)))]
                  \o SubSeq(st.buf, st.i + 17, Len(st.buf)),
        !.i = st.i + 16]

\* make([]byte, l) for l up to 16
ZeroBytes == <<0, 0, 0, 0, 0, 0, 0, 0, 0, 0, 0, 0, 0, 0, 0, 0>>

\* lines 254-260: one pass of the inner loop body, at word j and byte k of the
\* block; pt carries z, b (as the flag f: buf before the swap, r after), i, l
PartialByte(pt, j, k) ==
  LET kb   == ToByte(Shr32(pt.z, k * 8))
      blen == IF pt.f THEN Len(pt.s.r) ELSE Len(pt.buf)
      i1   == pt.i + 1
      l1   == (3 - j) * 4 + (3 - k)
  IN  IF pt.ret \/ pt.panic THEN pt
      ELSE IF pt.i >= blen THEN [pt EXCEPT !.panic = TRUE]
      ELSE LET w == IF pt.f
                    THEN [pt EXCEPT !.s.r[pt.i + 1] = XorByte(pt.s.r[pt.i + 1], kb),
                                    !.i = i1]
                    ELSE [pt EXCEPT !.buf[pt.i + 1] = XorByte(pt.buf[pt.i + 1], kb),
                                    !.i = i1]
           IN  IF (~pt.f) /\ i1 >= pt.l
               THEN IF l1 = 0
                    THEN [w EXCEPT !.l = l1, !.ret = TRUE]
                    ELSE [w EXCEPT !.l = l1,
                                   !.s.r = SubSeq(ZeroBytes, 1, l1),
                                   !.i = 0, !.f = TRUE]
               ELSE w

\* NextZ without its switch: z keeps the first word of the block
NextZStale(pt, j) == pt

\* lines 262-266: the switch that loads z for the next word
NextZ(pt, j) ==
  IF pt.ret \/ pt.panic \/ j = 3 THEN pt
  ELSE [pt EXCEPT !.z = OutWord(pt.s, j + 1)]

\* lines 252-267: the 4 x 4 loop over the block, position p = 4*j + k
RECURSIVE PartialFrom(_, _)
PartialFrom(pt, p) ==
  IF pt.ret \/ pt.panic \/ p = 16 THEN pt
  ELSE LET q == PartialByte(pt, p \div 4, p % 4)
       IN  PartialFrom(IF p % 4 = 3 THEN NextZ(q, p \div 4) ELSE q, p + 1)

PartialBlock(st) ==
  PartialFrom([s |-> st.s, buf |-> st.buf, i |-> st.i, l |-> st.l,
               rounds |-> st.rounds, panic |-> st.panic,
               z |-> OutWord(st.s, 0), f |-> FALSE, ret |-> FALSE], 0)

\* the running state of the call after the partial block pt
AfterPartial(pt) ==
  [s |-> pt.s, buf |-> pt.buf, i |-> pt.i, l |-> pt.l,
   rounds |-> pt.rounds, panic |-> pt.panic]

\* lines 226-269: the loop "for i < l"; OneRound is its body from the state
\* t that follows the rabbitNext call of line 227
RECURSIVE StreamLoop(_)
Continue(pt) == IF pt.ret THEN AfterPartial(pt) ELSE StreamLoop(AfterPartial(pt))

OneRound(t) ==
  IF t.l - t.i >= 16 THEN StreamLoop(FullBlock(t)) ELSE Continue(PartialBlock(t))

StreamLoop(st) ==
  IF st.panic \/ ~(st.i < st.l) THEN st
  ELSE OneRound([st EXCEPT !.s = rabbitNext(st.s), !.rounds = st.rounds + 1])

\* ProcessStream on cipher s and buffer buf: the cipher and the buffer after
\* the call, the number of rabbitNext calls, and whether an index went out
\* of range
ProcessStreamOf(s, buf) == StreamLoop(ConsumePending(s, buf))

(***************************************************************************)
(* Inputs.                                                                 *)
(***************************************************************************)
\* keys: two of the right size (the key schedule of KeyA ends with carry
\* set, that of KeyB with carry clear) and one of 15 bytes
KeyA == <<0, 0, 0, 0, 0, 0, 0, 0, 0, 0, 0, 0, 0, 0, 0, 0>>
KeyB == <<172, 195, 81, 220, 241, 98, 252, 59, 254, 54, 61, 46, 41, 19, 40, 145>>
KeyShort == <<0, 0, 0, 0, 0, 0, 0, 0, 0, 0, 0, 0, 0, 0, 0>>
Keys == {KeyA, KeyB, KeyShort}

\* IVs: two of the right size and one of 7 bytes
IVa == <<89, 126, 38, 193, 117, 245, 115, 195>>
IVb == <<0, 0, 0, 0, 0, 0, 0, 0>>
IVShort == <<0, 0, 0, 0, 0, 0, 0>>
IVs == {IVa, IVb, IVShort}

\* the caller's data: byte i of the message being sent, and the next n bytes
\* of it after the first pos
Plain(i) == (i * 37 + 11) % 256
Chunk(pos, n) == <<>> \o [k \in 1..n |-> Plain(pos + k - 1)]

\* buffer lengths: empty, shorter than the leftover, one block, a block and
\* a partial block
ChunkLens == {0, 1, 16, 17}

\* calls per run
MaxOps == 5

\* buffer lengths of the runs that vary the length: every length up to
\* MaxLen (so that r comes to hold every number of bytes from 0 to 15), and
\* two whole blocks with and without a partial block after them
MaxLen == 18
LongLens == {32, 33}
Lengths == (0..MaxLen) \cup LongLens

\* calls after NewCipher in those runs
MaxCalls == 2

(***************************************************************************)
(* State.                                                                  *)
(***************************************************************************)
VARIABLES
  made,      \* the caller holds a *Cipher
  x, c, cx, cc, carry, ccarry, r,   \* the fields of Cipher
  panic,     \* an index went out of range
  op,        \* the last call: its name, its argument, the error it returned
  steps,     \* number of calls made
  key,       \* the key of the successful NewCipher
  purged,    \* Reset has been called
  setup,     \* the calls other than ProcessStream since the last ProcessStream
  base,      \* the cipher as it was when the current message began
  chunks,    \* lengths of the ProcessStream calls of the current message
  msg,       \* their input buffers, concatenated
  out,       \* their output buffers, concatenated
  prev       \* when the current message follows a SetupIV that itself came
             \* after the message of an earlier SetupIV: that earlier IV and
             \* the keystream its message met

fields == <<x, c, cx, cc, carry, ccarry, r>>
vars == <<made, x, c, cx, cc, carry, ccarry, r, panic, op, steps, key, purged,
          setup, base, chunks, msg, out, prev>>

\* the receiver
Self == [x |-> x, c |-> c, cx |-> cx, cc |-> cc,
         carry |-> carry, ccarry |-> ccarry, r |-> r]

Store(s) ==
  /\ x' = s.x /\ c' = s.c /\ cx' = s.cx /\ cc' = s.cc
  /\ carry' = s.carry /\ ccarry' = s.ccarry /\ r' = s.r

XorBytes(a, b) == <<>> \o [k \in 1..Min(Len(a), Len(b)) |-> XorN(a[k], b[k])]

\* the keystream the current message has met: output XOR input
Keystream == XorBytes(msg, out)

NoPrev == [set |-> FALSE, iv |-> <<>>, ks |-> <<>>]

LastSetup == setup[Len(setup)]

Init ==
  /\ made = FALSE
  /\ x = ZeroWords /\ c = ZeroWords /\ cx = ZeroWords /\ cc = ZeroWords
  /\ carry = FALSE /\ ccarry = FALSE /\ r = <<>>
  /\ panic = FALSE
  /\ op = [name |-> "none", arg |-> <<>>, err |-> Nil]
  /\ steps = 0
  /\ key = <<>>
  /\ purged = FALSE
  /\ setup = <<>>
  /\ base = ZeroCipher
  /\ chunks = <<>>
  /\ msg = <<>>
  /\ out = <<>>
  /\ prev = NoPrev

\* a call other than ProcessStream that went through: it ends the current
\* message; a SetupIV that ends the message of an earlier SetupIV keeps
\* that message's keystream for comparison
Began(name, arg, s) ==
  /\ setup' = IF chunks = <<>> THEN Append(setup, <<name, arg>>)
              ELSE << <<name, arg>> >>
  /\ prev' = IF name = "SetupIV" /\ setup # <<>> /\ LastSetup[1] = "SetupIV"
             THEN [set |-> TRUE, iv |-> LastSetup[2], ks |-> Keystream]
             ELSE NoPrev
  /\ base' = s
  /\ chunks' = <<>>
  /\ msg' = <<>>
  /\ out' = <<>>

NewCipher(k) ==
  /\ ~made /\ ~panic /\ steps < MaxOps
  /\ steps' = steps + 1
  /\ op' = [name |-> "NewCipher", arg |-> k, err |-> NewCipherErr(k)]
  /\ panic' = panic
  /\ purged' = purged
  /\ IF NewCipherErr(k) # Nil
     THEN UNCHANGED <<made, fields, key, setup, base, chunks, msg, out, prev>>
     ELSE LET s == NewCipherOf(k)
          IN  /\ made' = TRUE
              /\ key' = k
              /\ Store(s)
              /\ Began("NewCipher", <<>>, s)

SetupIV(iv) ==
  /\ made /\ ~panic /\ steps < MaxOps
  /\ steps' = steps + 1
  /\ op' = [name |-> "SetupIV", arg |-> iv, err |-> SetupIVErr(iv)]
  /\ UNCHANGED <<made, panic, key, purged>>
  /\ IF SetupIVErr(iv) # Nil
     THEN UNCHANGED <<fields, setup, base, chunks, msg, out, prev>>
     ELSE LET s == SetupIVOf(Self, iv)
          IN  Store(s) /\ Began("SetupIV", iv, s)

ProcessStream(buf) ==
  /\ made /\ ~panic /\ steps < MaxOps
  /\ steps' = steps + 1
  /\ op' = [name |-> "ProcessStream", arg |-> buf, err |-> Nil]
  /\ LET res == ProcessStreamOf(Self, buf)
     IN  /\ Store(res.s)
         /\ panic' = res.panic
         /\ chunks' = Append(chunks, Len(buf))
         /\ msg' = msg \o buf
         /\ out' = out \o res.buf
  /\ UNCHANGED <<made, key, purged, setup, base, prev>>

ResetCipher ==
  /\ made /\ ~panic /\ steps < MaxOps
  /\ steps' = steps + 1
  /\ op' = [name |-> "ResetCipher", arg |-> <<>>, err |-> Nil]
  /\ UNCHANGED <<made, panic, key, purged>>
  /\ LET s == ResetCipherOf(Self)
     IN  Store(s) /\ Began("ResetCipher", <<>>, s)

Reset ==
  /\ made /\ ~panic /\ steps < MaxOps
  /\ steps' = steps + 1
  /\ op' = [name |-> "Reset", arg |-> <<>>, err |-> Nil]
  /\ purged' = TRUE
  /\ UNCHANGED <<made, panic, key>>
  /\ LET s == ResetOf(Self)
     IN  Store(s) /\ Began("Reset", <<>>, s)

Next ==
  \/ \E k \in Keys : NewCipher(k)
  \/ \E iv \in IVs : SetupIV(iv)
  \/ \E n \in ChunkLens : ProcessStream(Chunk(Len(msg), n))
  \/ ResetCipher
  \/ Reset

Spec == Init /\ [][Next]_vars

\* short runs on one key and one IV, with buffers of every length
LengthsNext ==
  \/ steps <= MaxCalls /\ NewCipher(KeyA)
  \/ steps <= MaxCalls /\ SetupIV(IVa)
  \/ steps <= MaxCalls /\ \E n \in Lengths : ProcessStream(Chunk(Len(msg), n))
  \/ steps <= MaxCalls /\ ResetCipher
  \/ steps <= MaxCalls /\ Reset

SpecLengths == Init /\ [][LengthsNext]_vars

(***************************************************************************)
(* Properties.                                                             *)
(***************************************************************************)
Zeros(n) == <<>> \o [k \in 1..n |-> 0]

\* the first n keystream bytes of cipher s, taken by one ProcessStream call
KeystreamOf(s, n) == ProcessStreamOf(s, Zeros(n)).buf

\* the message so far follows NewCipher, or a call sequence ending ..., a, b
After1(a) == setup # <<>> /\ LastSetup[1] = a
After2(a, b) ==
  Len(setup) >= 2 /\ setup[Len(setup) - 1][1] = a /\ LastSetup[1] = b

\* rabbitGen (lines 116-127): one round, then the block of the new state
GenOf(t) == [s |-> t, buf |-> GenBytes(t)]
rabbitGen(s) == GenOf(rabbitNext(s))

\* k calls of rabbitNext
RECURSIVE Rounds(_, _)
Rounds(s, k) == IF k = 0 THEN s ELSE Rounds(rabbitNext(s), k - 1)

\* the number of blocks that n bytes need
Blocks(n) == (n + 15) \div 16

\* u - v modulo 2^32
Sub32(u, v) ==
  LET l == Lo(u) - Lo(v)
      h == Hi(u) - Hi(v) - (IF l < 0 THEN 1 ELSE 0)
  IN  <<(h + 131072) % 65536, (l + 65536) % 65536>>

\* the counter words a round of rabbitNext on cipher s produces
NewC(s) == rabbitNextCounters(s)[1]

\* the carry into counter word i in that round, as the claims describe it:
\* the carry flag for word 0, and for the others 1 exactly when the new
\* word i-1 is below the old one
CarryIn(s, i) ==
  IF i = 0 THEN booltoi(s.carry) ELSE booltoi(Lt32(NewC(s)[i - 1], s.c[i - 1]))

\* what the round adds to counter word i besides the carry
Added(s, i) == Sub32(Sub32(NewC(s)[i], s.c[i]), CarryIn(s, i))

Odd32(w) == Lo(w) % 2 = 1

\* a buffer as long as buf that differs from it in every byte
Other(buf) == <<>> \o [k \in 1..Len(buf) |-> 255 - buf[k]]

\* C1: whatever the split of a message into ProcessStream calls, the bytes
\* those calls have put out are the bytes one ProcessStream call on the whole
\* message puts out from the state the message began in.
C1_StreamingEquivalence ==
  made => out = ProcessStreamOf(base, msg).buf

\* C2: a ProcessStream call on a zero-length buffer changes none of x, c,
\* carry and r, whatever r holds.
C2_EmptyBufferNoOp ==
  [][(op'.name = "ProcessStream" /\ Len(op'.arg) = 0)
       => UNCHANGED <<x, c, carry, r>>]_vars

\* C3: after ResetCipher and then SetupIV(iv), on a cipher that has not been
\* purged, the keystream of the ProcessStream calls that follow is the
\* keystream of NewCipher(key) and SetupIV(iv), from its first byte.
C3_ResetThenSetupIV ==
  (made /\ ~purged /\ After2("ResetCipher", "SetupIV"))
    => Keystream = KeystreamOf(SetupIVOf(NewCipherOf(key), LastSetup[2]), Len(msg))

\* C4: when SetupIV is called with the IV of the SetupIV before it, only
\* ProcessStream calls lying between the two, the keystream after the second
\* agrees byte for byte with the keystream after the first.
C4_SameIVSameKeystream ==
  (made /\ After1("SetupIV") /\ prev.set /\ prev.iv = LastSetup[2])
    => \A k \in 1..Min(Len(prev.ks), Len(Keystream)) : Keystream[k] = prev.ks[k]

\* C5: ResetCipher leaves x, c and carry equal to the master snapshot and r
\* empty, and the keystream of the ProcessStream calls after it, on a cipher
\* that has not been purged, is the keystream of NewCipher(key) from byte 0.
C5_ResetCipherIsFresh ==
  /\ op.name = "ResetCipher" => (x = cx /\ c = cc /\ carry = ccarry /\ r = <<>>)
  /\ (made /\ ~purged /\ After1("ResetCipher"))
       => Keystream = KeystreamOf(NewCipherOf(key), Len(msg))

\* C6: Reset leaves x, c, cx and cc all zero and both carry and ccarry false.
C6_PurgeClearsAll ==
  op.name = "Reset"
    => /\ x = ZeroWords /\ c = ZeroWords /\ cx = ZeroWords /\ cc = ZeroWords
       /\ carry = FALSE /\ ccarry = FALSE

\* C7: NewCipher with a key not of 16 bytes returns the key-size error and no
\* cipher; SetupIV with an IV not of 8 bytes returns the IV-size error and
\* changes no field of the cipher; with 16 and 8 bytes neither returns an
\* error.
C7_SizeValidation ==
  [][/\ op'.name = "NewCipher"
          => IF Len(op'.arg) # 16
             THEN op'.err = <<1, Len(op'.arg)>> /\ ~made' /\ UNCHANGED fields
             ELSE op'.err = Nil /\ made'
     /\ op'.name = "SetupIV"
          => IF Len(op'.arg) # 8
             THEN op'.err = <<2, Len(op'.arg)>> /\ UNCHANGED fields
             ELSE op'.err = Nil]_vars

C7_Witness ==
  op.name = "SetupIV" /\ op.err = <<2, 7>> /\ r # <<>> /\ c # cc

\* C8: the output of one ProcessStream call on a message, made on a cipher
\* fresh from NewCipher(key) and SetupIV(iv), is turned back into the message
\* by one ProcessStream call on a second cipher fresh from the same key and IV.
C8_Involution ==
  (made /\ ~purged /\ Len(setup) = 2 /\ After2("NewCipher", "SetupIV")
        /\ Len(chunks) = 1)
    => ProcessStreamOf(SetupIVOf(NewCipherOf(key), LastSetup[2]), out).buf = msg

C8_Witness ==
  /\ made /\ Len(setup) = 2 /\ After2("NewCipher", "SetupIV")
  /\ chunks = <<17>> /\ out # msg

\* C9: r never holds 16 bytes or more; SetupIV, ResetCipher and Reset leave
\* it as it was, and NewCipher leaves it empty.
C9_PendingBound ==
  /\ [](Len(r) < 16)
  /\ [][/\ op'.name \in {"SetupIV", "ResetCipher", "Reset"} => r' = r
        /\ op'.name = "NewCipher" => r' = <<>>]_vars

C9_Witness ==
  op.name = "Reset" /\ Len(r) = 15

\* C10: no SetupIV, ProcessStream or ResetCipher call changes cx, cc or
\* ccarry.
C10_MasterFrame ==
  [][op'.name \in {"SetupIV", "ProcessStream", "ResetCipher"}
       => UNCHANGED <<cx, cc, ccarry>>]_vars

C10_Witness ==
  /\ made /\ ~purged /\ op.name = "ResetCipher" /\ After2("SetupIV", "ResetCipher")
  /\ cx # ZeroWords

\* C11: no ProcessStream, ResetCipher or Reset call, on a buffer of any
\* length and with r of any length, indexes the buffer or r out of range:
\* every call made has completed.
C11_Total ==
  ~panic /\ (op.name \in {"ProcessStream", "ResetCipher", "Reset"} => op.err = Nil)

C11_Witness ==
  /\ op.name = "ProcessStream" /\ chunks = <<7, 18>>
  /\ Len(r) = 7 /\ Len(out) = 25 /\ ~panic

\* C13: Reset leaves r as it was: the leftover keystream bytes held before
\* the call are held, unchanged, after it.
C13_PurgeKeepsPending ==
  [][op'.name = "Reset" => r' = r]_vars

C13_Witness ==
  op.name = "Reset" /\ chunks = <<>> /\ Len(r) = 9 /\ x = ZeroWords /\ c = ZeroWords

\* C14: a ProcessStream call XORs the front of its buffer with the front of
\* r, byte for byte, and when the buffer is shorter than r the bytes of r it
\* did not reach are what r holds after the call, in order.
C14_PendingConsumedInOrder ==
  [][op'.name = "ProcessStream"
       => LET l == Len(op'.arg)
              m == Len(r)
              o == SubSeq(out', Len(out) + 1, Len(out'))
          IN  /\ \A k \in 1..Min(l, m) : o[k] = XorN(op'.arg[k], r[k])
              /\ l < m => r' = SubSeq(r, l + 1, m)]_vars

\* C15: in a ProcessStream call whose buffer is at least as long as r, let n
\* be the bytes of the buffer past r and t = n mod 16.  If t is 0, r is empty
\* after the call.  Otherwise the last t bytes of the buffer are XORed with
\* the first t bytes of the last block generated, taken as rabbitGen lays a
\* block out (word by word, low byte first), and r holds after the call the
\* other 16 - t bytes of that block, in order.
C15_PartialBlock ==
  [][(op'.name = "ProcessStream" /\ Len(op'.arg) >= Len(r))
       => LET l == Len(op'.arg)
              n == l - Len(r)
              t == n % 16
              o == SubSeq(out', Len(out) + 1, Len(out'))
              g == rabbitGen(Rounds(Self, Blocks(n) - 1)).buf
          IN  IF t = 0 THEN r' = <<>>
              ELSE /\ r' = SubSeq(g, t + 1, 16)
                   /\ SubSeq(o, l - t + 1, l)
                        = XorBytes(SubSeq(op'.arg, l - t + 1, l), SubSeq(g, 1, t))]_vars

C15_Witness ==
  /\ op.name = "ProcessStream" /\ chunks = <<11, 33>>
  /\ Len(r) = 4 /\ r = SubSeq(GenBytes(Self), 13, 16)

\* C16: a ProcessStream call on l bytes with m bytes in r leaves x, c and
\* carry as ceil(max(0, l - m) / 16) calls of rabbitNext leave them, and calls
\* rabbitNext that many times.
C16_Rounds ==
  [][op'.name = "ProcessStream"
       => LET l == Len(op'.arg)
              m == Len(r)
              k == Blocks(IF l > m THEN l - m ELSE 0)
              e == Rounds(Self, k)
          IN  /\ x' = e.x /\ c' = e.c /\ carry' = e.carry
              /\ ProcessStreamOf(Self, op'.arg).rounds = k]_vars

C16_Witness ==
  /\ op.name = "ProcessStream" /\ chunks = <<3, 33>>
  /\ x = Rounds(base, 3).x /\ x # Rounds(base, 2).x

\* C17: the x, c and carry a successful SetupIV(iv) leaves are those it
\* leaves on a cipher with the same cx, cc and ccarry and every other field
\* zero: they depend on the master snapshot and iv only.
C17_SetupIVFromMaster ==
  [][(op'.name = "SetupIV" /\ op'.err = Nil)
       => LET e == SetupIVOf([ZeroCipher EXCEPT !.cx = cx, !.cc = cc,
                                               !.ccarry = ccarry], op'.arg)
          IN  x' = e.x /\ c' = e.c /\ carry' = e.carry]_vars

C17_Witness ==
  /\ op.name = "SetupIV" /\ op.err = Nil /\ ~purged
  /\ prev.set /\ Len(prev.ks) = 17 /\ prev.iv # op.arg

\* C18 as claimed: the constant added to counter word i depends only on the
\* parity of i: one constant for the even words, another for the odd words,
\* both odd numbers.
C18_ParityConstants ==
  made => /\ \A i \in {2, 4, 6} : Added(Self, i) = Added(Self, 0)
          /\ \A i \in {3, 5, 7} : Added(Self, i) = Added(Self, 1)
          /\ Added(Self, 0) # Added(Self, 1)
          /\ Odd32(Added(Self, 0)) /\ Odd32(Added(Self, 1))

\* C18 as amended: the constant added to counter word i depends only on
\* i mod 3: three distinct constants, 0x4D34D34D, 0xD34D34D3 and 0x34D34D34,
\* those of words 0 and 1 odd and that of word 2 even.
C18_PeriodThreeConstants ==
  made => /\ \A i \in 3..7 : Added(Self, i) = Added(Self, i % 3)
          /\ Added(Self, 0) # Added(Self, 1)
          /\ Added(Self, 1) # Added(Self, 2)
          /\ Added(Self, 0) # Added(Self, 2)
          /\ Odd32(Added(Self, 0)) /\ Odd32(Added(Self, 1))
          /\ ~Odd32(Added(Self, 2))
          /\ Added(Self, 0) = A0 /\ Added(Self, 1) = A1 /\ Added(Self, 2) = A2

C18_Witness ==
  /\ made /\ ~purged /\ carry
  /\ CarryIn(Self, 3) = booltoi(TRUE) /\ CarryIn(Self, 4) = booltoi(FALSE)
  /\ Added(Self, 3) = Added(Self, 0) /\ Added(Self, 4) = Added(Self, 1)

\* C19: in a round of rabbitNext from any state, counter word i becomes the
\* old word plus its constant plus its carry-in, modulo 2^32, where the
\* carry-in of word 0 is the carry flag and that of word i > 0 is 1 exactly
\* when the new word i-1 is below the old word i-1; the round stores those
\* words in c, and sets carry exactly when the new word 7 is below the old.
C19_CarryChain ==
  made => /\ \A i \in 0..7 :
               NewC(Self)[i] = Add32(Add32(c[i], <<A0, A1, A2>>[(i % 3) + 1]),
                                     CarryIn(Self, i))
          /\ rabbitNext(Self).c = NewC(Self)
          /\ rabbitNext(Self).carry = Lt32(NewC(Self)[7], c[7])

C19_Witness ==
  /\ made /\ ~purged /\ ~carry
  /\ CarryIn(Self, 1) = booltoi(FALSE) /\ CarryIn(Self, 2) = booltoi(TRUE)
  /\ rabbitNext(Self).carry

\* C20: a ProcessStream call leaves x, c, carry and r as the same call on
\* another buffer of the same length leaves them, and its output XOR the
\* other output is its input XOR the other input.
C20_DataIndependence ==
  [][op'.name = "ProcessStream"
       => LET o   == SubSeq(out', Len(out) + 1, Len(out'))
              alt == ProcessStreamOf(Self, Other(op'.arg))
          IN  /\ x' = alt.s.x /\ c' = alt.s.c /\ carry' = alt.s.carry
              /\ r' = alt.s.r
              /\ XorBytes(o, alt.buf) = XorBytes(op'.arg, Other(op'.arg))]_vars

C20_Witness ==
  /\ op.name = "ProcessStream" /\ chunks = <<5, 18>>
  /\ Len(r) = 9 /\ SubSeq(out, 6, 23) # op.arg
====
